---- MODULE Spec2Model ----
(***************************************************************************)
(* betternews: the posts router (create post, list posts, toggle upvote)   *)
(* and comment creation over the posts, post_upvotes and comments tables.  *)
(*  The relational store is PostgreSQL at   *)
(* its default isolation level (READ COMMITTED): a statement sees the rows *)
(* committed when it starts, UPDATE takes the row lock of the rows it      *)
(* changes and keeps it until the transaction ends, and the writes of a    *)
(* transaction become visible to other requests only when it commits.      *)
(* Every `await` of a handler is a point where other requests interleave.  *)
(***************************************************************************)
EXTENDS Integers, FiniteSets, Sequences, TLC

\* ---------------------------------------------------------------- bounds
MaxPosts == 1
MaxVoteId == 3
MaxTime == 3
MaxCommentId == 3
MaxLimit == 2
MaxPage == 2
MaxDepth == 2
MaxSignups == 3

Users == {"u1", "u2"}
\* c.get("user") of a request without a valid session
NoUser == "none"
\* the Cookie header of a request: two live sessions, a stale id, no cookie
Cookies == {"s1", "s2", "stale", "nocookie"}
\* a column or form field that is absent
Null == "NULL"
\* form fields of POST /: a title too short and two that pass, a url absent,
\* empty, well-formed or malformed, a content absent, empty or not
Titles == {"ab", "abc", "abcd"}
Urls == {Null, "", "https://a", "notaurl"}
Contents == {Null, "", "text"}
\* values of now() when a row is inserted
Times == 1..MaxTime
\* query parameters of GET /: limit, page, sortBy, order, author, site
Limits == 1..MaxLimit
Pages == 1..MaxPage
SortBys == {"recent", "points"}
Orders == {"asc", "desc"}
\* <<author, site>>: absent, empty or a value
Filters == {<<Null, Null>>, <<"u1", Null>>, <<Null, "https://a">>,
            <<"u1", "https://a">>, <<"", Null>>, <<Null, "">>}
\* c.get("user") of a GET / request: a logged-in user or none
Viewers == {NoUser, "u1"}
\* two requests can be in flight at once
Reqs == {1, 2}
\* ids a request may carry in /:id/upvote; MaxPosts + 1 is never created
IdParams == 1..(MaxPosts + 1)

VARIABLES
    posts,       \* postsTable: id -> row (committed)
    votes,       \* postUpvotesTable: set of rows (committed)
    nextPostId,  \* serial of posts.id
    nextVoteId,  \* serial of post_upvotes.id
    req,         \* the requests in flight: position and handler locals
    resp,        \* the response sent last
    pair,        \* observer: an uninterrupted run of toggles by one voter
    comments,    \* commentsTable: set of rows (committed)
    nextCommentId, \* serial of comments.id
    creq,        \* the createComment calls in flight
    lreq,        \* the GET / request being served
    seen,        \* observer: the pages a client has fetched one after another
    users,       \* userTable: set of rows
    sessions,    \* sessionTable: set of rows
    nextUserId,  \* number of user ids generateId has handed out, plus 1
    sreq         \* the POST /signup requests in flight

commentVars == <<comments, nextCommentId, creq>>

authVars == <<users, sessions, nextUserId, sreq>>

restVars == <<seen, authVars>>

vars == <<posts, votes, nextPostId, nextVoteId, req, resp, pair, commentVars, lreq, restVars>>

\* -------------------------------------------------- session and loggedIn
\* lucia.readSessionCookie + lucia.validateSession: the user of the request
SessionUser(cookie) ==
    CASE cookie = "s1" -> "u1"
      [] cookie = "s2" -> "u2"
      [] OTHER -> NoUser

\* mutant: the route is mounted without the loggedIn middleware
LoggedIn_Skipped(u) == TRUE

\* loggedIn: if (!user) throw new HTTPException(401)
LoggedIn(u) == u # NoUser

\* ------------------------------------------------------- tables and rows
PostRow(u, title, url, content, now) ==
    [userId |-> u, title |-> title, url |-> url, content |-> content,
     points |-> 0, commentCount |-> 0, createdAt |-> now]

UpvoteRow(vid, id, u) == [id |-> vid, postId |-> id, userId |-> u]

\* where(and(eq(postId, id), eq(userId, user.id)))
UpvotesOf(vs, id, u) == {v \in vs : v.postId = id /\ v.userId = u}

UpvotesOnPost(vs, id) == {v \in vs : v.postId = id}

IsUpvoted(vs, id, u) == UpvotesOf(vs, id, u) # {}

\* ------------------------------------------------------ request records
InFlight == {"select", "update", "mutate", "commit"}

IdleReq ==
    [pc |-> "idle", user |-> "u1", id |-> 0, existingUpvote |-> {},
     pointsChange |-> 1, updated |-> {}, newId |-> 0]

\* c.json({ success, message, data: { count, isUpvoted } }, status)
NoResp == [status |-> 0, count |-> 0, isUpvoted |-> FALSE]

ErrorResp(st) == [NoResp EXCEPT !.status = st]

Quiet == \A r \in Reqs : req[r].pc \notin InFlight

\* a createComment call: its arguments and the rows its transaction wrote
IdleComment ==
    [pc |-> "idle", postId |-> 0, userId |-> "u1", newId |-> 0, matched |-> 0]

CommentInFlight == {"insert", "update", "commit"}

CommentsQuiet == \A c \in Reqs : creq[c].pc \notin CommentInFlight

\* no GET / request is being served
NoList == [pc |-> "idle"]

\* no page fetched yet
NoSweep == [n |-> 0, ids |-> <<>>, q |-> NoList, total |-> 0]

IdleSignup == [pc |-> "idle", username |-> "", userId |-> ""]

\* a row of userTable
UserRow(id, username) == [id |-> id, username |-> username, password_hash |-> "hash"]

\* a row of sessionTable
SessionRow(id, userId) == [id |-> id, userId |-> userId]

\* the usernames u1 and u2 signed up with
UsernameOf(u) == IF u = "u1" THEN "amy" ELSE "bob"

\* the users u1 and u2 have signed up and hold the sessions s1 and s2
InitRest ==
    /\ seen = NoSweep
    /\ users = {UserRow(u, UsernameOf(u)) : u \in Users}
    /\ sessions = {SessionRow("s1", "u1"), SessionRow("s2", "u2")}
    /\ nextUserId = 1
    /\ sreq = [s \in Reqs |-> IdleSignup]

\* the row lock of post id is held by the transaction that updated the row
HoldsLock(r, id) == req[r].pc \in {"mutate", "commit"} /\ req[r].id = id

\* the row lock of post id is held by the createComment that updated the row
CommentHoldsLock(c, id) ==
    creq[c].pc = "commit" /\ creq[c].matched = 1 /\ creq[c].postId = id

\* -------------------------------------------------------------- observer
NoPair == [n |-> -1, id |-> 0, user |-> "u1", points |-> 0, upvoted |-> FALSE]

PairAtBegin(u, id) ==
    IF Quiet /\ id \in DOMAIN posts
    THEN IF pair.n = 1 /\ pair.id = id /\ pair.user = u
         THEN pair
         ELSE [n |-> 0, id |-> id, user |-> u,
               points |-> posts[id].points,
               upvoted |-> IsUpvoted(votes, id, u)]
    ELSE NoPair

PairAtCommit == IF pair.n \in {0, 1} THEN [pair EXCEPT !.n = @ + 1] ELSE NoPair

\* ------------------------------------------------------------------ Init
Init ==
    /\ posts = <<>>
    /\ votes = {}
    /\ nextPostId = 1
    /\ nextVoteId = 1
    /\ req = [r \in Reqs |-> IdleReq]
    /\ resp = NoResp
    /\ pair = NoPair
    /\ comments = {}
    /\ nextCommentId = 1
    /\ creq = [c \in Reqs |-> IdleComment]
    /\ lreq = NoList
    /\ InitRest

\* ------------------------------------------------------------ createPost
\* a JavaScript string is truthy unless it is empty; undefined is falsy
Truthy(x) == x # Null /\ x # ""

\* insertPostSchema.url: a trimmed URL, or absent, or the empty string
UrlOk(url) == url \in {Null, "", "https://a"}

\* mutant: createPostSchema without its refine
ValidPost_NoRefine(title, url, content) ==
    /\ Len(title) >= 3
    /\ UrlOk(url)

\* createPostSchema: title of 3 characters or more, url valid, and
\* refine((data) => data.url || data.content)
ValidPost(title, url, content) ==
    /\ Len(title) >= 3
    /\ UrlOk(url)
    /\ Truthy(url) \/ Truthy(content)

\* c.json({ success, message: "Post created", data: { postId } }, 201)
CreatedResp(id) == [status |-> 201, postId |-> id]

\* POST / : loggedIn and zValidator passed; one INSERT, points defaults to 0
CreatePost(u, title, url, content, now) ==
    /\ LoggedIn(u)
    /\ ValidPost(title, url, content)
    /\ nextPostId <= MaxPosts
    /\ posts' = posts @@ (nextPostId :> PostRow(u, title, url, content, now))
    /\ nextPostId' = nextPostId + 1
    /\ resp' = CreatedResp(nextPostId)
    /\ UNCHANGED <<votes, nextVoteId, req>>

\* POST / : zValidator("form", createPostSchema) answers 400
RejectPost(u, title, url, content) ==
    /\ LoggedIn(u)
    /\ ~ValidPost(title, url, content)
    /\ resp' = ErrorResp(400)
    /\ UNCHANGED <<posts, votes, nextPostId, nextVoteId, req>>

\* loggedIn throws 401 before the handler of POST / or POST /:id/upvote runs
Unauthorized(cookie) ==
    /\ ~LoggedIn(SessionUser(cookie))
    /\ resp' = ErrorResp(401)
    /\ UNCHANGED <<posts, votes, nextPostId, nextVoteId, req>>

\* ---------------------------------------------------- POST /:id/upvote
\* the handler starts: loggedIn passed, id validated, pointsChange = 1
Begin(r, u, id) ==
    /\ LoggedIn(u)
    /\ req[r].pc = "idle"
    /\ \A o \in Reqs : o < r => req[o].pc \in InFlight
    /\ nextVoteId + Cardinality({o \in Reqs : req[o].pc \in InFlight}) <= MaxVoteId
    /\ req' = [req EXCEPT ![r] = [IdleReq EXCEPT !.pc = "select", !.user = u, !.id = id]]
    /\ UNCHANGED <<posts, votes, nextPostId, nextVoteId, resp>>

\* rows the existence SELECT ... LIMIT 1 may return: any one matching row
SelectResults(vs, id, u) ==
    IF UpvotesOf(vs, id, u) = {} THEN {{}} ELSE {{v} : v \in UpvotesOf(vs, id, u)}

\* pointsChange = existingUpvote ? -1 : 1
PointsChange(existing) == IF existing # {} THEN -1 ELSE 1

\* const [existingUpvote] = await tx.select()...limit(1); no lock is taken
Select(r) ==
    /\ req[r].pc = "select"
    /\ \E rows \in SelectResults(votes, req[r].id, req[r].user) :
         req' = [req EXCEPT ![r].pc = "update",
                            ![r].existingUpvote = rows,
                            ![r].pointsChange = PointsChange(rows)]
    /\ UNCHANGED <<posts, votes, nextPostId, nextVoteId, resp>>

\* set({ points: sql`points + pointsChange` })
NewPoints(cur, change) == cur + change

\* rows the UPDATE ... WHERE id = :id RETURNING points gives back
UpdatedRows(ps, id, change) ==
    IF id \in DOMAIN ps THEN {NewPoints(ps[id].points, change)} ELSE {}

\* mutant: the points are written without waiting for the row lock
CanUpdate_NoWait(r) == TRUE

\* the UPDATE waits while another transaction holds the row lock
CanUpdate(r) ==
    /\ ~ \E o \in Reqs \ {r} : HoldsLock(o, req[r].id)
    /\ ~ \E c \in Reqs : CommentHoldsLock(c, req[r].id)

\* the UPDATE matched the post: the row is locked and changed inside tx
UpdateFound(r) ==
    /\ req[r].pc = "update"
    /\ req[r].id \in DOMAIN posts
    /\ CanUpdate(r)
    /\ req' = [req EXCEPT ![r].pc = "mutate",
                          ![r].updated = UpdatedRows(posts, req[r].id, req[r].pointsChange)]
    /\ UNCHANGED <<posts, votes, nextPostId, nextVoteId, resp>>

\* mutant: the vote record is inserted outside the transaction before the
\* 404 is thrown
UpdateNotFound_KeepsInsert(r) ==
    /\ req[r].pc = "update"
    /\ UpdatedRows(posts, req[r].id, req[r].pointsChange) = {}
    /\ votes' = votes \cup {UpvoteRow(nextVoteId, req[r].id, req[r].user)}
    /\ req' = [req EXCEPT ![r] = IdleReq]
    /\ resp' = ErrorResp(404)
    /\ UNCHANGED <<posts, nextPostId, nextVoteId>>

\* if (!updated) throw new HTTPException(404): the transaction rolls back
UpdateNotFound(r) ==
    /\ req[r].pc = "update"
    /\ UpdatedRows(posts, req[r].id, req[r].pointsChange) = {}
    /\ req' = [req EXCEPT ![r] = IdleReq]
    /\ resp' = ErrorResp(404)
    /\ UNCHANGED <<posts, votes, nextPostId, nextVoteId>>

\* tx.delete(postUpvotesTable).where(eq(id, existingUpvote.id))
DeleteUpvote(r) ==
    /\ req[r].pc = "mutate"
    /\ req[r].existingUpvote # {}
    /\ req' = [req EXCEPT ![r].pc = "commit"]
    /\ UNCHANGED <<posts, votes, nextPostId, nextVoteId, resp>>

\* tx.insert(postUpvotesTable).values({ postId: id, userId: user.id })
InsertUpvote(r) ==
    /\ req[r].pc = "mutate"
    /\ req[r].existingUpvote = {}
    /\ req' = [req EXCEPT ![r].pc = "commit", ![r].newId = nextVoteId]
    /\ nextVoteId' = nextVoteId + 1
    /\ UNCHANGED <<posts, votes, nextPostId, resp>>

\* mutant: the DELETE filters on (postId, userId) instead of the row id
DeletedRows_ByPair(vs, existing) ==
    {v \in vs : \E e \in existing : v.postId = e.postId /\ v.userId = e.userId}

\* rows the DELETE ... WHERE id = existingUpvote.id removes
DeletedRows(vs, existing) == {v \in vs : \E e \in existing : v.id = e.id}

\* the vote rows once the transaction's delete or insert is applied
VotesAfter(vs, q) ==
    IF q.existingUpvote # {}
    THEN vs \ DeletedRows(vs, q.existingUpvote)
    ELSE vs \cup {UpvoteRow(q.newId, q.id, q.user)}

\* mutant: the UPDATE has no where clause and changes every post
PostsAfter_AllPosts(ps, q) ==
    [p \in DOMAIN ps |-> [ps[p] EXCEPT !.points = @ + q.pointsChange]]

\* mutant: the update writes the row back with its comment count reset
PostsAfter_DropsCount(ps, q) ==
    [ps EXCEPT ![q.id].points = CHOOSE x \in q.updated : TRUE,
               ![q.id].commentCount = 0]

\* the post rows once the transaction's update is applied
PostsAfter(ps, q) ==
    [ps EXCEPT ![q.id].points = CHOOSE x \in q.updated : TRUE]

\* return updated.points; data: { count: points, isUpvoted: pointsChange > 0 }
Response(q) ==
    [status |-> 200,
     count |-> CHOOSE x \in q.updated : TRUE,
     isUpvoted |-> (q.pointsChange > 0)]

\* the transaction commits: its writes become visible, the lock is released
Commit(r) ==
    /\ req[r].pc = "commit"
    /\ posts' = PostsAfter(posts, req[r])
    /\ votes' = VotesAfter(votes, req[r])
    /\ req' = [req EXCEPT ![r] = IdleReq]
    /\ resp' = Response(req[r])
    /\ UNCHANGED <<nextPostId, nextVoteId>>

\* mutant: the points UPDATE ran on db, not on tx, and survives the rollback
RolledBackPosts_KeepsUpdate(ps, q) ==
    IF q.updated # {} /\ q.id \in DOMAIN ps
    THEN [ps EXCEPT ![q.id].points = CHOOSE x \in q.updated : TRUE]
    ELSE ps

\* what a rolled-back transaction leaves in the tables
RolledBackPosts(ps, q) == ps

RolledBackVotes(vs, q) == vs

\* a storage step throws: db.transaction rolls back, onError answers 500
Fail(r) ==
    /\ req[r].pc \in InFlight
    /\ posts' = RolledBackPosts(posts, req[r])
    /\ votes' = RolledBackVotes(votes, req[r])
    /\ req' = [req EXCEPT ![r] = IdleReq]
    /\ resp' = ErrorResp(500)
    /\ UNCHANGED <<nextPostId, nextVoteId>>

\* ------------------------------------------------------------------ Next
\* what the toggle and createPost steps leave alone
TogglesOnly == UNCHANGED <<commentVars, lreq, restVars>>

\* a post as the upvote runs need it: a link post made at time of its id
NewLinkPost(u) == CreatePost(u, "abc", "https://a", Null, nextPostId)

Next ==
    \/ (\E ck \in Cookies : NewLinkPost(SessionUser(ck))) /\ UNCHANGED pair /\ TogglesOnly
    \/ (\E ck \in Cookies : Unauthorized(ck)) /\ UNCHANGED pair /\ TogglesOnly
    \/ (\E r \in Reqs, ck \in Cookies, id \in IdParams : Begin(r, SessionUser(ck), id))
          /\ UNCHANGED pair /\ TogglesOnly
    \/ (\E r \in Reqs : Select(r)) /\ UNCHANGED pair /\ TogglesOnly
    \/ (\E r \in Reqs : UpdateFound(r)) /\ UNCHANGED pair /\ TogglesOnly
    \/ (\E r \in Reqs : UpdateNotFound(r)) /\ UNCHANGED pair /\ TogglesOnly
    \/ (\E r \in Reqs : DeleteUpvote(r)) /\ UNCHANGED pair /\ TogglesOnly
    \/ (\E r \in Reqs : InsertUpvote(r)) /\ UNCHANGED pair /\ TogglesOnly
    \/ (\E r \in Reqs : Commit(r)) /\ UNCHANGED pair /\ TogglesOnly
    \/ (\E r \in Reqs : Fail(r)) /\ UNCHANGED pair /\ TogglesOnly

Spec == Init /\ [][Next]_vars

\* --------------------------------------------------------- createComment
\* parent_comment_id of a top-level comment (NULL); serial ids start at 1
NoParent == 0

\* mutant: the row names itself as its parent
CommentRow_SelfParent(cid, postId, userId) ==
    [id |-> cid, postId |-> postId, userId |-> userId, parentCommentId |-> cid,
     content |-> "text", depth |-> 0, commentCount |-> 0, points |-> 0]

\* mutant: the insert writes depth 1
CommentRow_DepthOne(cid, postId, userId) ==
    [id |-> cid, userId |-> userId, postId |-> postId, parentCommentId |-> NoParent,
     content |-> "text", depth |-> 1, commentCount |-> 0, points |-> 0]

\* the row of insert(commentsTable).values({ postId, userId, content }):
\* parent_comment_id stays NULL, depth, comment_count and points default to 0
CommentRow(cid, postId, userId) ==
    [id |-> cid, userId |-> userId, postId |-> postId, parentCommentId |-> NoParent,
     content |-> "text", depth |-> 0, commentCount |-> 0, points |-> 0]

CommentsOfPost(cs, id) == {c \in cs : c.postId = id}

\* createComment(postId, userId, content) is called
CommentBegin(c, postId, userId) ==
    /\ creq[c].pc = "idle"
    /\ \A o \in Reqs : o < c => creq[o].pc \in CommentInFlight
    /\ nextCommentId + Cardinality({o \in Reqs : creq[o].pc \in CommentInFlight})
          <= MaxCommentId
    /\ creq' = [creq EXCEPT ![c] = [IdleComment EXCEPT !.pc = "insert",
                                        !.postId = postId, !.userId = userId]]
    /\ UNCHANGED <<posts, comments, nextCommentId, nextPostId, resp>>

\* const [comment] = await tx.insert(commentsTable).values(...).returning()
CommentInsert(c) ==
    /\ creq[c].pc = "insert"
    /\ creq' = [creq EXCEPT ![c].pc = "update", ![c].newId = nextCommentId]
    /\ nextCommentId' = nextCommentId + 1
    /\ UNCHANGED <<posts, comments, nextPostId, resp>>

\* number of rows UPDATE posts ... WHERE id = postId matches
MatchedPosts(ps, id) == IF id \in DOMAIN ps THEN 1 ELSE 0

\* await tx.update(postsTable).set({ commentCount: commentCount + 1 }):
\* waits for the row lock; the number of matched rows is not looked at
CommentUpdate(c) ==
    /\ creq[c].pc = "update"
    /\ ~ \E o \in Reqs \ {c} : CommentHoldsLock(o, creq[c].postId)
    /\ ~ \E r \in Reqs : HoldsLock(r, creq[c].postId)
    /\ creq' = [creq EXCEPT ![c].pc = "commit",
                            ![c].matched = MatchedPosts(posts, creq[c].postId)]
    /\ UNCHANGED <<posts, comments, nextCommentId, nextPostId, resp>>

\* the post rows once the transaction's update is applied
PostsAfterComment(ps, q) ==
    IF q.matched = 1
    THEN [ps EXCEPT ![q.postId].commentCount = @ + 1]
    ELSE ps

\* return comment
CommentResult(row) == [status |-> 200, comment |-> row]

\* the transaction commits and createComment returns the comment
CommentCommit(c) ==
    /\ creq[c].pc = "commit"
    /\ comments' = comments \cup
                     {CommentRow(creq[c].newId, creq[c].postId, creq[c].userId)}
    /\ posts' = PostsAfterComment(posts, creq[c])
    /\ creq' = [creq EXCEPT ![c] = IdleComment]
    /\ resp' = CommentResult(CommentRow(creq[c].newId, creq[c].postId, creq[c].userId))
    /\ UNCHANGED <<nextCommentId, nextPostId>>

\* a storage step throws: the transaction rolls back, createComment throws
CommentFail(c) ==
    /\ creq[c].pc \in CommentInFlight
    /\ creq' = [creq EXCEPT ![c] = IdleComment]
    /\ resp' = ErrorResp(500)
    /\ UNCHANGED <<posts, comments, nextCommentId, nextPostId>>

\* what the createComment steps leave alone
CommentsOnly == UNCHANGED <<votes, nextVoteId, req, pair, lreq, restVars>>

NextComments ==
    \/ (\E u \in Users : NewLinkPost(u)) /\ UNCHANGED <<pair, commentVars, lreq, restVars>>
    \/ (\E c \in Reqs, id \in IdParams, u \in Users : CommentBegin(c, id, u))
          /\ CommentsOnly
    \/ (\E c \in Reqs : CommentInsert(c)) /\ CommentsOnly
    \/ (\E c \in Reqs : CommentUpdate(c)) /\ CommentsOnly
    \/ (\E c \in Reqs : CommentCommit(c)) /\ CommentsOnly
    \/ (\E c \in Reqs : CommentFail(c)) /\ CommentsOnly

SpecComments == Init /\ [][NextComments]_vars

\* toggles on MaxPosts + 1 existing posts, no post voted yet
InitFrame ==
    /\ posts = [i \in IdParams |-> PostRow("u1", "abc", "https://a", Null, i)]
    /\ nextPostId = MaxPosts + 2
    /\ votes = {}
    /\ nextVoteId = 1
    /\ req = [r \in Reqs |-> IdleReq]
    /\ resp = NoResp
    /\ pair = NoPair
    /\ comments = {}
    /\ nextCommentId = 1
    /\ creq = [c \in Reqs |-> IdleComment]
    /\ lreq = NoList
    /\ InitRest

NextFrame ==
    \/ (\E r \in Reqs, u \in Users, id \in IdParams : Begin(r, u, id))
          /\ UNCHANGED pair /\ TogglesOnly
    \/ (\E r \in Reqs : Select(r)) /\ UNCHANGED pair /\ TogglesOnly
    \/ (\E r \in Reqs : UpdateFound(r)) /\ UNCHANGED pair /\ TogglesOnly
    \/ (\E r \in Reqs : DeleteUpvote(r)) /\ UNCHANGED pair /\ TogglesOnly
    \/ (\E r \in Reqs : InsertUpvote(r)) /\ UNCHANGED pair /\ TogglesOnly
    \/ (\E r \in Reqs : Commit(r)) /\ UNCHANGED pair /\ TogglesOnly

\* every query of a request is answered in the end: a statement that can run
\* does run, and a transaction waiting for a row lock gets it once the
\* holders ahead of it have committed
FairFrame ==
    \A r \in Reqs :
        /\ WF_vars(Select(r) /\ UNCHANGED pair /\ TogglesOnly)
        /\ SF_vars(UpdateFound(r) /\ UNCHANGED pair /\ TogglesOnly)
        /\ WF_vars(DeleteUpvote(r) /\ UNCHANGED pair /\ TogglesOnly)
        /\ WF_vars(InsertUpvote(r) /\ UNCHANGED pair /\ TogglesOnly)
        /\ WF_vars(Commit(r) /\ UNCHANGED pair /\ TogglesOnly)

SpecFrame == InitFrame /\ [][NextFrame]_vars /\ FairFrame

\* a vote toggle and a createComment by u1 on existing posts, one of each
\* in flight, in every interleaving of their steps, the store not failing
NextBoth ==
    \/ NewLinkPost("u1") /\ UNCHANGED pair /\ TogglesOnly
    \/ (\E u \in Users, id \in IdParams : Begin(1, u, id)) /\ UNCHANGED pair /\ TogglesOnly
    \/ Select(1) /\ UNCHANGED pair /\ TogglesOnly
    \/ UpdateFound(1) /\ UNCHANGED pair /\ TogglesOnly
    \/ UpdateNotFound(1) /\ UNCHANGED pair /\ TogglesOnly
    \/ DeleteUpvote(1) /\ UNCHANGED pair /\ TogglesOnly
    \/ InsertUpvote(1) /\ UNCHANGED pair /\ TogglesOnly
    \/ Commit(1) /\ UNCHANGED pair /\ TogglesOnly
    \/ (\E id \in DOMAIN posts : CommentBegin(1, id, "u1")) /\ CommentsOnly
    \/ CommentInsert(1) /\ CommentsOnly
    \/ CommentUpdate(1) /\ CommentsOnly
    \/ CommentCommit(1) /\ CommentsOnly

SpecBoth == Init /\ [][NextBoth]_vars

\* -------------------------------------------------------- getCommentTree
\* the depth argument of getCommentTree
Depths == 0..MaxDepth

\* a reply as createComment(authorId, postId, parentCommentId, content) is
\* specified to store it: on its parent's post, depth computed from the parent
ReplyRow(cid, userId, parent) ==
    [CommentRow(cid, parent.postId, userId) EXCEPT
        !.parentCommentId = parent.id, !.depth = parent.depth + 1]

\* the comment tables with serial ids 1..n: each comment is top-level on a
\* post or a reply to a comment stored before it
RECURSIVE Forests(_)
Forests(n) ==
    IF n = 0 THEN {{}}
    ELSE UNION {{F \cup {CommentRow(n, p, "u1")} : p \in IdParams}
                \cup {F \cup {ReplyRow(n, "u1", c)} : c \in F}
                : F \in Forests(n - 1)}

\* SELECT c.*, 0 as level FROM comments c
\* WHERE post_id = postId AND parent_comment_id IS NULL
TreeBase(cs, postId) ==
    {[comment |-> c, level |-> 0] :
        c \in {x \in cs : x.postId = postId /\ x.parentCommentId = NoParent}}

\* mutant: the recursion stops one level later (ct.level <= depth)
TreeStep_OneDeeper(cs, work, depth) ==
    UNION {{[comment |-> c, level |-> w.level + 1] :
               c \in {x \in cs : x.parentCommentId = w.comment.id}}
           : w \in {x \in work : x.level <= depth}}

\* SELECT c.*, ct.level + 1 FROM comments c
\* JOIN comment_tree ct ON c.parent_comment_id = ct.id WHERE ct.level < depth
TreeStep(cs, work, depth) ==
    UNION {{[comment |-> c, level |-> w.level + 1] :
               c \in {x \in cs : x.parentCommentId = w.comment.id}}
           : w \in {x \in work : x.level < depth}}

\* WITH RECURSIVE: the working table is joined again until it yields no row
RECURSIVE TreeFrom(_, _, _)
TreeFrom(cs, work, depth) ==
    IF work = {} THEN {}
    ELSE work \cup TreeFrom(cs, TreeStep(cs, work, depth), depth)

\* the rows of SELECT * FROM comment_tree (their ORDER BY is not carried)
CommentTree(cs, postId, depth) == TreeFrom(cs, TreeBase(cs, postId), depth)

TreeResult(postId, depth, rows) ==
    [status |-> 200, postId |-> postId, depth |-> depth, rows |-> rows]

\* getCommentTree(postId, depth) runs its one query and returns the rows
GetCommentTree(postId, depth) ==
    /\ resp' = TreeResult(postId, depth, CommentTree(comments, postId, depth))
    /\ UNCHANGED <<posts, votes, nextPostId, nextVoteId, req, pair, commentVars, lreq, restVars>>

\* the stores getCommentTree is run on: MaxPosts + 1 posts, up to
\* MaxCommentId comments on them, each post counting its comments
InitTree ==
    /\ \E n \in 0..MaxCommentId :
         /\ nextCommentId = n + 1
         /\ \E F \in Forests(n) :
              /\ comments = F
              /\ posts = [i \in IdParams |->
                            [PostRow("u1", "abc", "https://a", Null, i) EXCEPT
                                !.commentCount = Cardinality(CommentsOfPost(F, i))]]
    /\ nextPostId = MaxPosts + 2
    /\ votes = {}
    /\ nextVoteId = 1
    /\ req = [r \in Reqs |-> IdleReq]
    /\ resp = NoResp
    /\ pair = NoPair
    /\ creq = [c \in Reqs |-> IdleComment]
    /\ lreq = NoList
    /\ InitRest

NextTree == \E postId \in IdParams, depth \in Depths : GetCommentTree(postId, depth)

SpecTree == InitTree /\ [][NextTree]_vars

\* ----------------------------------------------------------------- GET /
\* mutant: the two conditions are joined by OR
FilterMatches_Either(row, author, site) ==
    \/ ~Truthy(author) /\ ~Truthy(site)
    \/ Truthy(author) /\ row.userId = author
    \/ Truthy(site) /\ row.url = site

\* and(author ? eq(userId, author) : undefined, site ? eq(url, site) : undefined)
FilterMatches(row, author, site) ==
    /\ Truthy(author) => row.userId = author
    /\ Truthy(site) => row.url = site

Matching(ps, author, site) ==
    {id \in DOMAIN ps : FilterMatches(ps[id], author, site)}

\* mutant: the count query runs without the where clause
CountQuery_Unfiltered(ps, author, site) == Cardinality(DOMAIN ps)

\* select({ count: countDistinct(postsTable.id) }).from(postsTable).where(...)
CountQuery(ps, author, site) == Cardinality(Matching(ps, author, site))

\* mutant: pages are counted from 0
Offset_FromZero(page, limit) == page * limit

\* const offset = (page - 1) * limit
Offset(page, limit) == (page - 1) * limit

\* what stands for Infinity and NaN, which the JSON answer carries as null
NotFinite == -1

\* Math.ceil(count.count / limit), for limit >= 0: n / 0 is Infinity or NaN
TotalPages(count, limit) ==
    IF limit = 0 THEN NotFinite ELSE (count + limit - 1) \div limit

\* mutant: the join matches the votes of every user
JoinedVotes_AnyUser(vs, id, viewer) ==
    IF viewer = NoUser THEN {} ELSE UpvotesOnPost(vs, id)

\* if (user) leftJoin(postUpvotesTable, and(eq(postId, posts.id), eq(userId, user.id)))
JoinedVotes(vs, id, viewer) ==
    IF viewer = NoUser THEN {} ELSE UpvotesOf(vs, id, viewer)

\* the rows of posts LEFT JOIN post_upvotes: one per matching vote row, or
\* one with the vote columns NULL (vote 0) when there is none
JoinRows(ps, vs, q) ==
    UNION {IF JoinedVotes(vs, id, q.viewer) = {}
           THEN {[id |-> id, vote |-> 0]}
           ELSE {[id |-> id, vote |-> v.id] : v \in JoinedVotes(vs, id, q.viewer)}
           : id \in Matching(ps, q.author, q.site)}

\* sortBy === "points" ? postsTable.points : postsTable.createdAt
SortKey(ps, id, sortBy) ==
    IF sortBy = "points" THEN ps[id].points ELSE ps[id].createdAt

\* mutant: the rows are sorted ascending whatever the order parameter
InOrder_AlwaysAsc(a, b, order) == a <= b

\* order === "desc" ? desc(sortByColumn) : asc(sortByColumn)
InOrder(a, b, order) == IF order = "desc" THEN a >= b ELSE a <= b

\* the orders ORDER BY may give the rows: any order that respects the key
Orderings(rows, ps, sortBy, order) ==
    {f \in [1..Cardinality(rows) -> rows] :
        /\ \A i, j \in DOMAIN f : i # j => f[i] # f[j]
        /\ \A i, j \in DOMAIN f :
              i < j => InOrder(SortKey(ps, f[i].id, sortBy),
                               SortKey(ps, f[j].id, sortBy), order)}

\* .limit(limit).offset(offset)
PageOf(seq, offset, limit) ==
    [i \in 1..(IF Len(seq) - offset < limit
               THEN (IF Len(seq) - offset < 0 THEN 0 ELSE Len(seq) - offset)
               ELSE limit) |-> seq[offset + i]]

\* the selected columns (createdAt, formatted by a helper kept outside this
\* tree, and the author's username are not carried); isUpvoted: user ? CASE
\* WHEN post_upvotes.user_id IS NOT NULL THEN true ELSE false END : false
ItemOf(ps, row, viewer) ==
    [id |-> row.id, title |-> ps[row.id].title, url |-> ps[row.id].url,
     points |-> ps[row.id].points, content |-> ps[row.id].content,
     commentCount |-> ps[row.id].commentCount, author |-> ps[row.id].userId,
     isUpvoted |-> (viewer # NoUser /\ row.vote # 0)]

\* the pages the posts query may return
ListResults(ps, vs, q) ==
    {[i \in DOMAIN pg |-> ItemOf(ps, pg[i], q.viewer)] :
        pg \in {PageOf(ord, Offset(q.page, q.limit), q.limit) :
                   ord \in Orderings(JoinRows(ps, vs, q), ps, q.sortBy, q.order)}}

\* GET / starts with validated query parameters and runs the count query
ListCount(viewer, limit, page, sortBy, order, author, site) ==
    /\ lreq.pc = "idle"
    /\ lreq' = [pc |-> "page", viewer |-> viewer, limit |-> limit, page |-> page,
                sortBy |-> sortBy, order |-> order, author |-> author, site |-> site,
                count |-> CountQuery(posts, author, site),
                items |-> <<>>, totalPages |-> 0]
    /\ UNCHANGED <<posts, votes>>

\* the posts query runs and the page is answered with its pagination
ListPage ==
    /\ lreq.pc = "page"
    /\ lreq.limit >= 0
    /\ Offset(lreq.page, lreq.limit) >= 0
    /\ \E items \in ListResults(posts, votes, lreq) :
          lreq' = [lreq EXCEPT !.pc = "done", !.items = items,
                               !.totalPages = TotalPages(lreq.count, lreq.limit)]
    /\ UNCHANGED <<posts, votes>>

\* PostgreSQL refuses a negative LIMIT or OFFSET: the query throws and
\* onError answers 500
ListPageFails ==
    /\ lreq.pc = "page"
    /\ lreq.limit < 0 \/ Offset(lreq.page, lreq.limit) < 0
    /\ lreq' = NoList
    /\ resp' = ErrorResp(500)
    /\ UNCHANGED <<posts, votes>>

\* return c.json({ data, pagination }, 200): the request is over
ListReturn ==
    /\ lreq.pc = "done"
    /\ lreq' = NoList
    /\ UNCHANGED <<posts, votes>>

\* post rows a store may hold: a link post of either user, a text post
ListShapes ==
    {PostRow("u1", "abc", "https://a", Null, 0),
     PostRow("u2", "abc", "https://a", Null, 0),
     PostRow("u1", "abc", Null, "text", 0)}

\* vote rows a store may hold: two of u1 on post 1 (left by racing
\* toggles) and one of u2 on post 2
ListVotes == {UpvoteRow(1, 1, "u1"), UpvoteRow(2, 1, "u1"), UpvoteRow(3, 2, "u2")}

\* the stores GET / is run on: up to MaxPosts + 1 posts created in turn,
\* votes on them, points no higher than the votes of the post
InitList ==
    /\ \E n \in 0..(MaxPosts + 1) :
         /\ nextPostId = n + 1
         /\ \E f \in [1..n -> ListShapes] :
              \E vs \in {w \in SUBSET {v \in ListVotes : v.postId <= n} :
                             UpvoteRow(2, 1, "u1") \in w => UpvoteRow(1, 1, "u1") \in w} :
                \E pts \in [1..n -> {0, 1}] :
                  /\ \A i \in 1..n : pts[i] <= Cardinality(UpvotesOnPost(vs, i))
                  /\ votes = vs
                  /\ posts = [i \in 1..n |->
                                [f[i] EXCEPT !.createdAt = i, !.points = pts[i]]]
    /\ nextVoteId = MaxVoteId + 1
    /\ req = [r \in Reqs |-> IdleReq]
    /\ resp = NoResp
    /\ pair = NoPair
    /\ comments = {}
    /\ nextCommentId = 1
    /\ creq = [c \in Reqs |-> IdleComment]
    /\ lreq = NoList
    /\ InitRest

\* what the GET / steps leave alone
ListOnly == UNCHANGED <<nextPostId, nextVoteId, req, resp, pair, commentVars, restVars>>

NextList ==
    \/ (\E viewer \in Viewers, limit \in Limits, page \in Pages, sortBy \in SortBys,
            order \in Orders, filter \in Filters :
            ListCount(viewer, limit, page, sortBy, order, filter[1], filter[2])) /\ ListOnly
    \/ ListPage /\ ListOnly
    \/ ListReturn /\ ListOnly
    \/ (\E u \in Users : NewLinkPost(u)) /\ UNCHANGED <<pair, commentVars, lreq, restVars>>

SpecList == InitList /\ [][NextList]_vars

\* the post ids of a page, in order
Ids(items) == [i \in DOMAIN items |-> items[i].id]

\* ---------------------------------------------------------- POST /signup
\* the username field of the form
Usernames == {"no", "amy", "cat", "dan"}

\* what generateId(15) returns, call after call: ids not handed out before
GeneratedIds == <<"g1", "g2", "g3", "g4", "g5">>

\* the ids lucia.createSession gives the sessions it creates
SessionIds == <<"t1", "t2", "t3", "t4", "t5">>

SignupInFlight == {"insert", "session"}

\* loginSchema.username: a string of 3 to 31 letters, digits or underscores
LoginOk(username) == Len(username) >= 3 /\ Len(username) <= 31

\* zValidator answers 400 when loginSchema rejects the form
SignupReject(username) ==
    /\ ~LoginOk(username)
    /\ resp' = ErrorResp(400)
    /\ UNCHANGED <<users, sessions, nextUserId, sreq>>

\* the form is valid, the password is hashed and the user id generated
SignupBegin(s, username) ==
    /\ LoginOk(username)
    /\ sreq[s].pc = "idle"
    /\ \A o \in Reqs : o < s => sreq[o].pc \in SignupInFlight
    /\ nextUserId <= MaxSignups
    /\ sreq' = [sreq EXCEPT ![s] = [pc |-> "insert", username |-> username,
                                     userId |-> GeneratedIds[nextUserId]]]
    /\ nextUserId' = nextUserId + 1
    /\ UNCHANGED <<users, sessions, resp>>

\* mutant: userTable has no unique constraint
UniqueViolation_Never(us, row) == FALSE

\* error 23505: the primary key id or the unique username is already there
UniqueViolation(us, row) ==
    \E u \in us : u.id = row.id \/ u.username = row.username

\* await db.insert(userTable).values(...): the row is stored at once (the
\* statement is not inside a transaction)
SignupInsert(s) ==
    /\ sreq[s].pc = "insert"
    /\ ~UniqueViolation(users, UserRow(sreq[s].userId, sreq[s].username))
    /\ users' = users \cup {UserRow(sreq[s].userId, sreq[s].username)}
    /\ sreq' = [sreq EXCEPT ![s].pc = "session"]
    /\ UNCHANGED <<sessions, nextUserId, resp>>

\* the insert throws 23505: catch answers 409 'Username already used'
SignupConflict(s) ==
    /\ sreq[s].pc = "insert"
    /\ UniqueViolation(users, UserRow(sreq[s].userId, sreq[s].username))
    /\ sreq' = [sreq EXCEPT ![s] = IdleSignup]
    /\ resp' = ErrorResp(409)
    /\ UNCHANGED <<users, sessions, nextUserId>>

SignupResp == [status |-> 201, message |-> "User created"]

\* lucia.createSession stores the session; the cookie is set, 201 answered
SignupSession(s) ==
    /\ sreq[s].pc = "session"
    /\ sessions' = sessions \cup
                     {SessionRow(SessionIds[Cardinality(sessions) - 1], sreq[s].userId)}
    /\ sreq' = [sreq EXCEPT ![s] = IdleSignup]
    /\ resp' = SignupResp
    /\ UNCHANGED <<users, nextUserId>>

\* the insert or createSession throws another error: catch answers 500;
\* nothing undoes a user row already inserted
SignupFail(s) ==
    /\ sreq[s].pc \in SignupInFlight
    /\ sreq' = [sreq EXCEPT ![s] = IdleSignup]
    /\ resp' = ErrorResp(500)
    /\ UNCHANGED <<users, sessions, nextUserId>>

SignupOnly ==
    UNCHANGED <<posts, votes, nextPostId, nextVoteId, req, pair, commentVars, lreq, seen>>

NextSignup ==
    \/ (\E username \in Usernames : SignupReject(username)) /\ SignupOnly
    \/ (\E s \in Reqs, username \in Usernames : SignupBegin(s, username)) /\ SignupOnly
    \/ (\E s \in Reqs : SignupInsert(s)) /\ SignupOnly
    \/ (\E s \in Reqs : SignupConflict(s)) /\ SignupOnly
    \/ (\E s \in Reqs : SignupSession(s)) /\ SignupOnly
    \/ (\E s \in Reqs : SignupFail(s)) /\ SignupOnly

SpecSignup == Init /\ [][NextSignup]_vars

\* the limit and page query parameters as the request carries them
RawNumbers == {"-1", "0", "1", "2", "x"}

\* z.number({ coerce: true }): Number(value), NaN for what is no number
Coerce(raw) ==
    CASE raw = "-1" -> [ok |-> TRUE, n |-> -1]
      [] raw = "0" -> [ok |-> TRUE, n |-> 0]
      [] raw = "1" -> [ok |-> TRUE, n |-> 1]
      [] raw = "2" -> [ok |-> TRUE, n |-> 2]
      [] OTHER -> [ok |-> FALSE, n |-> 0]

\* paginationSchema on limit and page: any number passes, there is no minimum
PaginationOk(limit, page) == Coerce(limit).ok /\ Coerce(page).ok

\* zValidator answers 400 when the schema rejects the query
RawReject(limit, page) ==
    /\ lreq.pc = "idle"
    /\ ~PaginationOk(limit, page)
    /\ resp' = ErrorResp(400)
    /\ UNCHANGED <<posts, votes, lreq>>

\* GET /?limit=..&page=.. without a session, other parameters at their
\* defaults, passes the schema and starts the handler
RawCount(limit, page) ==
    /\ PaginationOk(limit, page)
    /\ ListCount(NoUser, Coerce(limit).n, Coerce(page).n, "points", "asc", Null, Null)

RawOnly == UNCHANGED <<nextPostId, nextVoteId, req, pair, commentVars, restVars>>

NextRaw ==
    \/ (\E limit \in RawNumbers, page \in RawNumbers : RawReject(limit, page)) /\ RawOnly
    \/ (\E limit \in RawNumbers, page \in RawNumbers : RawCount(limit, page)) /\ ListOnly
    \/ ListPage /\ ListOnly
    \/ ListPageFails /\ RawOnly
    \/ ListReturn /\ ListOnly

SpecRaw == InitList /\ [][NextRaw]_vars

\* a client fetches page 1, then page 2, ... with the same other parameters
\* while nothing else changes the store; seen collects the ids it was given
SweepParams(q) ==
    [viewer |-> q.viewer, limit |-> q.limit, sortBy |-> q.sortBy,
     order |-> q.order, author |-> q.author, site |-> q.site]

SweepOnly == UNCHANGED <<nextPostId, nextVoteId, req, resp, pair, commentVars, authVars>>

SweepCount(viewer, limit, sortBy, order, author, site) ==
    /\ \/ seen.n = 0
       \/ /\ seen.n < seen.total
          /\ seen.q = [viewer |-> viewer, limit |-> limit, sortBy |-> sortBy,
                       order |-> order, author |-> author, site |-> site]
    /\ ListCount(viewer, limit, seen.n + 1, sortBy, order, author, site)
    /\ UNCHANGED seen

SweepPage ==
    /\ ListPage
    /\ seen' = [n |-> seen.n + 1, ids |-> seen.ids \o Ids(lreq'.items),
                q |-> SweepParams(lreq), total |-> lreq'.totalPages]

NextSweep ==
    \/ (\E viewer \in Viewers, limit \in Limits, sortBy \in SortBys,
            order \in Orders, filter \in Filters :
            SweepCount(viewer, limit, sortBy, order, filter[1], filter[2])) /\ SweepOnly
    \/ SweepPage /\ SweepOnly
    \/ ListReturn /\ UNCHANGED seen /\ SweepOnly

SpecSweep == InitList /\ [][NextSweep]_vars

\* now() does not run backwards
ClockAt(now) == \A p \in DOMAIN posts : posts[p].createdAt <= now

\* what the createPost steps leave alone
PostsOnly == UNCHANGED <<pair, commentVars, lreq, restVars>>

\* POST / with every shape of form and session
NextPosts ==
    \/ (\E ck \in Cookies, t \in Titles, url \in Urls, c \in Contents, now \in Times :
            ClockAt(now) /\ CreatePost(SessionUser(ck), t, url, c, now)) /\ PostsOnly
    \/ (\E ck \in Cookies, t \in Titles, url \in Urls, c \in Contents :
            RejectPost(SessionUser(ck), t, url, c)) /\ PostsOnly
    \/ (\E ck \in Cookies : Unauthorized(ck)) /\ PostsOnly

SpecPosts == Init /\ [][NextPosts]_vars

\* the same program, with the observer following runs of uninterrupted toggles
NextPair ==
    \/ (\E u \in Users : NewLinkPost(u)) /\ pair' = NoPair /\ TogglesOnly
    \/ \E r \in Reqs, u \in Users, id \in IdParams :
         Begin(r, u, id) /\ pair' = PairAtBegin(u, id) /\ TogglesOnly
    \/ (\E r \in Reqs : Select(r)) /\ UNCHANGED pair /\ TogglesOnly
    \/ (\E r \in Reqs : UpdateFound(r)) /\ UNCHANGED pair /\ TogglesOnly
    \/ (\E r \in Reqs : UpdateNotFound(r)) /\ pair' = NoPair /\ TogglesOnly
    \/ (\E r \in Reqs : DeleteUpvote(r)) /\ UNCHANGED pair /\ TogglesOnly
    \/ (\E r \in Reqs : InsertUpvote(r)) /\ UNCHANGED pair /\ TogglesOnly
    \/ (\E r \in Reqs : Commit(r)) /\ pair' = PairAtCommit /\ TogglesOnly
    \/ (\E r \in Reqs : Fail(r)) /\ pair' = NoPair /\ TogglesOnly

SpecPair == Init /\ [][NextPair]_vars

\* the runs in which the toggles in flight on a post are by distinct voters
\* and the store does not fail
DistinctVoter(u, id) ==
    \A o \in Reqs : req[o].pc \in InFlight => ~(req[o].user = u /\ req[o].id = id)

NextDistinct ==
    \/ (\E u \in Users : NewLinkPost(u)) /\ UNCHANGED pair /\ TogglesOnly
    \/ \E r \in Reqs, u \in Users, id \in IdParams :
         DistinctVoter(u, id) /\ Begin(r, u, id) /\ UNCHANGED pair /\ TogglesOnly
    \/ (\E r \in Reqs : Select(r)) /\ UNCHANGED pair /\ TogglesOnly
    \/ (\E r \in Reqs : UpdateFound(r)) /\ UNCHANGED pair /\ TogglesOnly
    \/ (\E r \in Reqs : UpdateNotFound(r)) /\ UNCHANGED pair /\ TogglesOnly
    \/ (\E r \in Reqs : DeleteUpvote(r)) /\ UNCHANGED pair /\ TogglesOnly
    \/ (\E r \in Reqs : InsertUpvote(r)) /\ UNCHANGED pair /\ TogglesOnly
    \/ (\E r \in Reqs : Commit(r)) /\ UNCHANGED pair /\ TogglesOnly

SpecDistinct == Init /\ [][NextDistinct]_vars

\* ---------------------------------------------------------------- claims
\* request r leaves the handler in this step
Finishes(r) == req[r].pc \in InFlight /\ req'[r].pc = "idle"

\* request r commits its transaction in this step
Commits(r) == req[r].pc = "commit" /\ req'[r].pc = "idle" /\ resp'.status = 200

\* the store as other requests see it does not change in this step
StoreUnchanged == posts' = posts /\ votes' = votes

\* C1: in every reachable state there is at most one post-vote record for
\* each (postId, voterId) pair.
C1_AtMostOneVotePerPair ==
    \A id \in IdParams, u \in Users : Cardinality(UpvotesOf(votes, id, u)) <= 1

\* C2: whenever no toggle is in flight, every post's points equals the
\* number of post-vote records that reference the post.
C2_PointsEqualVoteCount ==
    Quiet => \A p \in DOMAIN posts :
                posts[p].points = Cardinality(UpvotesOnPost(votes, p))

\* C3: racing toggles of one voter on one post behave as some serial order:
\* a toggle that commits +1 finds no record of (post, voter) in the store it
\* commits to (no second increment), a toggle that commits -1 finds the
\* record it deletes still there (no second decrement), and the record after
\* the commit exists exactly when the delta was +1.
C3_SameVoterRaceIsSerial ==
    [][\A r \in Reqs : Commits(r) =>
          /\ req[r].pointsChange = 1 => ~IsUpvoted(votes, req[r].id, req[r].user)
          /\ req[r].pointsChange = -1 => req[r].existingUpvote \subseteq votes
          /\ IsUpvoted(votes', req[r].id, req[r].user) = (req[r].pointsChange = 1)]_vars

\* C4: a toggle that has read whether the vote exists holds the row lock of
\* its post, so no two toggles of one voter on one post are both past their
\* existence check with neither committed.
C4_LockBeforeExistenceRead ==
    /\ \A r \in Reqs : req[r].pc \in {"update", "mutate", "commit"}
                          => HoldsLock(r, req[r].id)
    /\ \A r1, r2 \in Reqs :
          (/\ r1 # r2
           /\ req[r1].pc \in {"update", "mutate", "commit"}
           /\ req[r2].pc \in {"update", "mutate", "commit"}
           /\ req[r1].id = req[r2].id)
          => req[r1].user # req[r2].user

\* C5: with toggles in flight only by distinct voters, every toggle on an
\* existing post succeeds and moves the post's points by its own delta, +1
\* if the voter had no vote and -1 if the voter had one, so the points are
\* always the number of vote records: no counter update is lost.
C5_DistinctVotersNoLostUpdate ==
    /\ [](\A p \in DOMAIN posts :
             Quiet => posts[p].points = Cardinality(UpvotesOnPost(votes, p)))
    /\ [][\A r \in Reqs : (Finishes(r) /\ req[r].id \in DOMAIN posts) =>
             /\ resp'.status = 200
             /\ posts'[req[r].id].points = posts[req[r].id].points +
                  (IF IsUpvoted(votes, req[r].id, req[r].user) THEN -1 ELSE 1)]_vars

\* two distinct voters toggle the same existing post at the same time: one
\* holds the row lock and is about to commit, the other waits at its UPDATE
C5_Witness ==
    \E r1, r2 \in Reqs :
        /\ req[r1].user # req[r2].user
        /\ req[r1].id = req[r2].id
        /\ req[r1].id \in DOMAIN posts
        /\ req[r1].pc = "commit"
        /\ req[r2].pc = "update"
        /\ posts[req[r1].id].points = 1

\* C6: two consecutive successful toggles by one voter on one post, with no
\* other request interleaved, leave the post's points and the existence of
\* the voter's vote record as they were before the first toggle.
C6_TwoTogglesRestore ==
    pair.n = 2 =>
        /\ posts[pair.id].points = pair.points
        /\ IsUpvoted(votes, pair.id, pair.user) = pair.upvoted

\* C7: a toggle whose post id does not exist never succeeds, answers 404
\* when its UPDATE matches no row (500 only if the store itself fails), and
\* changes no vote record and no post; no toggle gets past its UPDATE
\* without its post, and 404 is answered only for a missing post.
C7_MissingPostIsNotFound ==
    /\ [](\A r \in Reqs : req[r].pc \in {"mutate", "commit"}
                             => req[r].id \in DOMAIN posts)
    /\ [][\A r \in Reqs :
            /\ (Finishes(r) /\ req[r].id \notin DOMAIN posts) =>
                  /\ resp'.status \in {404, 500}
                  /\ req[r].pc = "update"  \/ resp'.status = 500
                  /\ StoreUnchanged
            /\ (Finishes(r) /\ resp'.status = 404) =>
                  /\ req[r].id \notin DOMAIN posts
                  /\ StoreUnchanged]_vars

\* a toggle on a post id that was never created has been answered 404
C7_Witness ==
    /\ resp.status = 404
    /\ Quiet
    /\ votes = {}
    /\ nextVoteId = 1

\* C8: a toggle that ends in a storage failure leaves the posts and the vote
\* records exactly as they were, and no step other than a commit changes an
\* existing post or a vote record: nothing of a transaction is visible
\* before it commits.
C8_FailureRollsBack ==
    [][/\ \A r \in Reqs : (Finishes(r) /\ resp'.status = 500) => StoreUnchanged
       /\ (\A r \in Reqs : ~Commits(r)) =>
             /\ votes' = votes
             /\ \A p \in DOMAIN posts : posts'[p] = posts[p]]_vars

\* a transaction that had updated the points and inserted a vote record was
\* rolled back: the serial moved on, nothing else did
C8_Witness ==
    /\ resp.status = 500
    /\ Quiet
    /\ nextVoteId = 2
    /\ votes = {}
    /\ 1 \in DOMAIN posts
    /\ posts[1].points = 0

\* C9: a successful toggle returns the post's points as stored right after
\* its commit and an isUpvoted flag that tells whether a vote record of
\* (post, voter) exists after the commit.
C9_ResponseMatchesStore ==
    [][\A r \in Reqs : Commits(r) =>
          /\ resp'.count = posts'[req[r].id].points
          /\ resp'.isUpvoted = IsUpvoted(votes', req[r].id, req[r].user)]_vars

C11_UnauthorizedMutatesNothing ==
    /\ [](/\ \A r \in Reqs : req[r].pc \in InFlight => req[r].user \in Users
          /\ \A p \in DOMAIN posts : posts[p].userId \in Users
          /\ \A v \in votes : v.userId \in Users)
    /\ [][(resp' # resp /\ resp'.status = 401) =>
             UNCHANGED <<posts, votes, nextPostId, nextVoteId, req>>]_vars

\* a request without a session was answered 401 on a store that holds a
\* post and a vote record
C11_Witness ==
    /\ resp.status = 401
    /\ 1 \in DOMAIN posts
    /\ votes # {}

\* C16 as claimed: every stored post has exactly one of url and content.
C16_ExactlyOneOfUrlContent ==
    \A p \in DOMAIN posts : Truthy(posts[p].url) # Truthy(posts[p].content)

\* C16 as amended: every stored post has a non-empty url or a non-empty
\* content (both may be there), and a request that the form schema rejects
\* is answered 400 and stores nothing.
C16_UrlOrContent ==
    /\ [](\A p \in DOMAIN posts : Truthy(posts[p].url) \/ Truthy(posts[p].content))
    /\ [][(resp' # resp /\ resp'.status = 400) =>
             UNCHANGED <<posts, nextPostId>>]_vars

\* a post with both a url and a content is stored, and a later request was
\* rejected by the form schema
C16_Witness ==
    /\ resp.status = 400
    /\ \E p \in DOMAIN posts : Truthy(posts[p].url) /\ Truthy(posts[p].content)

\* createComment call c returns or throws in this step
CommentFinishes(c) == creq[c].pc \in CommentInFlight /\ creq'[c].pc = "idle"

\* createComment call c commits in this step and returns its comment
CommentCommits(c) == creq[c].pc = "commit" /\ creq'[c].pc = "idle" /\ resp'.status = 200

C18_CommentBumpsPostCount ==
    [][\A c \in Reqs : CommentCommits(c) =>
          /\ creq[c].postId \in DOMAIN posts'
          /\ posts'[creq[c].postId].commentCount = posts[creq[c].postId].commentCount + 1
          /\ \A p \in DOMAIN posts : p # creq[c].postId => posts'[p] = posts[p]
          /\ comments \subseteq comments'
          /\ Cardinality(comments' \ comments) = 1]_vars

\* C19: whenever no createComment is in flight, every post's commentCount
\* is the number of stored comments whose postId is that post.
C19_CommentCountMatches ==
    CommentsQuiet =>
        \A p \in DOMAIN posts :
            posts[p].commentCount = Cardinality(CommentsOfPost(comments, p))

\* C20: a createComment whose postId does not exist fails with NotFound
\* (or with the store's own failure), stores no comment and changes no
\* counter.
C20_CommentOnMissingPostNotFound ==
    [][\A c \in Reqs :
          (CommentFinishes(c) /\ creq[c].postId \notin DOMAIN posts) =>
              /\ resp'.status \in {404, 500}
              /\ comments' = comments
              /\ posts' = posts]_vars

\* the step in which GET / runs its count query
ListCounts == lreq.pc = "idle" /\ lreq'.pc = "page"

\* the step in which GET / runs its posts query and builds the answer
ListAnswers == lreq.pc = "page" /\ lreq'.pc = "done"

\* the posts matching the filter, each once, in the orders the sort allows
SortedMatches(ps, q) ==
    Orderings({[id |-> id, vote |-> 0] : id \in Matching(ps, q.author, q.site)},
              ps, q.sortBy, q.order)

\* C12: the page returned for page p and limit l holds exactly the posts at
\* positions (p-1)*l+1 .. p*l of the matching posts in the requested sort
\* order (fewer when the set ends earlier), for callers with and without
\* a session.
C12_PageIsSliceOfSortedMatches ==
    [][ListAnswers =>
          \E ord \in SortedMatches(posts, lreq) :
              Ids(lreq'.items) = Ids(PageOf(ord, (lreq.page - 1) * lreq.limit, lreq.limit))]_vars

\* the least k with k * limit >= n
Ceil(n, limit) ==
    CHOOSE k \in 0..n : k * limit >= n /\ \A j \in 0..n : j * limit >= n => k <= j

\* C13: totalPages is ceil(n / limit), n being the number of posts that
\* satisfy the filter of the page query in the store the count query reads.
C13_TotalPagesIsCeil ==
    [][/\ ListCounts =>
            lreq'.count = Cardinality({id \in DOMAIN posts :
                              FilterMatches(posts[id], lreq'.author, lreq'.site)})
       /\ ListAnswers => lreq'.totalPages = Ceil(lreq.count, lreq.limit)]_vars

C13_Witness ==
    /\ lreq.pc = "done"
    /\ Truthy(lreq.author)
    /\ Cardinality(DOMAIN posts) = 2
    /\ lreq.count = 1
    /\ lreq.limit = 2
    /\ lreq.totalPages = 1

\* C14 as stated: every returned post has the author of the author filter
\* when one is given and the url of the site filter when one is given.
C14_GivenFiltersHold ==
    [][ListAnswers =>
          \A i \in DOMAIN lreq'.items :
              /\ lreq.author # Null => lreq'.items[i].author = lreq.author
              /\ lreq.site # Null => lreq'.items[i].url = lreq.site]_vars

\* C14 amended: every returned post satisfies every filter that is given
\* and not empty, author AND site; with no such filter no post is left out:
\* the count is of all posts, and a first page with room for all of them,
\* asked without a session, holds them all.
C14_NonEmptyFiltersHold ==
    [][/\ ListAnswers =>
            /\ \A i \in DOMAIN lreq'.items :
                  /\ lreq.author \notin {Null, ""} => lreq'.items[i].author = lreq.author
                  /\ lreq.site \notin {Null, ""} => lreq'.items[i].url = lreq.site
            /\ (/\ lreq.author \in {Null, ""} /\ lreq.site \in {Null, ""}
                /\ lreq.viewer = NoUser /\ lreq.page = 1
                /\ Cardinality(DOMAIN posts) <= lreq.limit)
               => {lreq'.items[i].id : i \in DOMAIN lreq'.items} = DOMAIN posts
       /\ (ListCounts /\ lreq'.author \in {Null, ""} /\ lreq'.site \in {Null, ""})
            => lreq'.count = Cardinality(DOMAIN posts)]_vars

C14_Witness ==
    /\ lreq.pc = "done"
    /\ lreq.author = "u1"
    /\ lreq.site = "https://a"
    /\ Len(lreq.items) = 1
    /\ \E p \in DOMAIN posts : posts[p].userId = "u2" /\ posts[p].url = "https://a"

\* C15: an item's isUpvoted is true exactly when the request has a session
\* user and a vote record of (that post, that user) exists; without a session
\* user every item has isUpvoted = FALSE.
C15_IsUpvotedIffOwnVote ==
    [][ListAnswers =>
          \A i \in DOMAIN lreq'.items :
              lreq'.items[i].isUpvoted =
                  (/\ lreq.viewer \in Users
                   /\ \E v \in votes : /\ v.postId = lreq'.items[i].id
                                       /\ v.userId = lreq.viewer)]_vars

C15_Witness ==
    /\ lreq.pc = "done"
    /\ lreq.viewer = "u1"
    /\ \E i, j \in DOMAIN lreq.items :
          /\ lreq.items[i].isUpvoted
          /\ ~lreq.items[j].isUpvoted
          /\ \E v \in votes : v.postId = lreq.items[j].id /\ v.userId = "u2"

RECURSIVE LevelOf(_, _)
LevelOf(cs, c) ==
    IF c.parentCommentId = NoParent THEN 0
    ELSE 1 + LevelOf(cs, CHOOSE p \in cs : p.id = c.parentCommentId)

\* C22: getCommentTree(postId, maxDepth) returns exactly the comments of the
\* post whose distance from the top level is at most maxDepth: none deeper,
\* none of another post, none missing.
C22_TreeIsBoundedSubforest ==
    resp.status = 200 /\ "rows" \in DOMAIN resp =>
        {r.comment : r \in resp.rows} =
            {c \in comments : c.postId = resp.postId /\ LevelOf(comments, c) <= resp.depth}

\* a tree was returned that leaves out a comment below the bound and a
\* comment of another post
C22_Witness ==
    /\ resp.status = 200 /\ "rows" \in DOMAIN resp
    /\ resp.rows # {}
    /\ \E c \in comments : c.postId = resp.postId /\ LevelOf(comments, c) > resp.depth
    /\ \E c \in comments : c.postId # resp.postId

\* C23: when a createComment on post P and a vote toggle on P run at the
\* same time and both succeed, both counter changes survive: the step that
\* commits the toggle moves P's points by the toggle's delta and keeps P's
\* commentCount, the step that commits the comment raises P's commentCount
\* by 1 and keeps P's points; no other step changes either counter.
C23_BothCountersSurvive ==
    [][/\ Commits(1) =>
            /\ posts'[req[1].id].points = posts[req[1].id].points + req[1].pointsChange
            /\ posts'[req[1].id].commentCount = posts[req[1].id].commentCount
       /\ CommentCommits(1) =>
            /\ posts'[creq[1].postId].commentCount = posts[creq[1].postId].commentCount + 1
            /\ posts'[creq[1].postId].points = posts[creq[1].postId].points
       /\ (~Commits(1) /\ ~CommentCommits(1)) =>
            \A p \in DOMAIN posts : posts'[p] = posts[p]]_vars

\* the toggle has taken P's row lock and is about to commit while the
\* createComment on P, its comment inserted, waits to update the same row,
\* and an earlier comment is already counted
C23_Witness ==
    /\ req[1].pc = "commit"
    /\ creq[1].pc = "update"
    /\ creq[1].postId = req[1].id
    /\ req[1].id \in DOMAIN posts
    /\ posts[req[1].id].commentCount = 1

\* C24: a toggle by voter V on post P leaves the points of every other
\* post, every vote record of every other post and every vote record on P
\* of another voter as they were; and toggles running at the same time on
\* different posts or by different voters do not keep one another from
\* succeeding: each of them finishes, and finishes with 200.
C24_ToggleFrameAndIndependence ==
    /\ [][\A r \in Reqs : Finishes(r) =>
             /\ \A p \in DOMAIN posts : p # req[r].id => posts'[p] = posts[p]
             /\ \A v \in votes \cup votes' :
                   (v.postId # req[r].id \/ v.userId # req[r].user)
                       => (v \in votes <=> v \in votes')
             /\ resp'.status = 200]_vars
    /\ \A r \in Reqs : (req[r].pc \in InFlight) ~> (req[r].pc = "idle")

\* toggles by different voters are in flight on different posts, one of
\* them about to commit, and a vote of the other voter is stored on the post
\* being committed
C24_Witness ==
    \E r1, r2 \in Reqs :
        /\ req[r1].pc = "commit"
        /\ req[r2].pc \in InFlight
        /\ req[r1].id # req[r2].id
        /\ req[r1].user # req[r2].user
        /\ \E v \in votes : v.postId = req[r1].id /\ v.userId = req[r2].user

\* the stored value of the requested sort key of a returned item
KeyOf(item, sortBy) ==
    IF sortBy = "points" THEN item.points ELSE posts[item.id].createdAt

\* C25: the items of a page follow the requested key and direction: from
\* one item to the next the key (points for sortBy = points, createdAt for
\* sortBy = recent) does not fall when order = asc and does not rise when
\* order = desc.
C25_PageIsSorted ==
    [][ListAnswers =>
          \A i \in DOMAIN lreq'.items : i + 1 \in DOMAIN lreq'.items =>
              IF lreq.order = "asc"
              THEN KeyOf(lreq'.items[i], lreq.sortBy) <= KeyOf(lreq'.items[i + 1], lreq.sortBy)
              ELSE KeyOf(lreq'.items[i], lreq.sortBy) >= KeyOf(lreq'.items[i + 1], lreq.sortBy)]_vars

\* a page sorted by points, descending, holds two posts of different points
C25_Witness ==
    /\ lreq.pc = "done"
    /\ lreq.sortBy = "points"
    /\ lreq.order = "desc"
    /\ Len(lreq.items) = 2
    /\ lreq.items[1].points > lreq.items[2].points

\* C26: one listPosts response holds each post at most once and at most
\* limit items, for callers with a session as for callers without.
C26_NoPostTwiceAtMostLimit ==
    [][ListAnswers =>
          /\ Len(lreq'.items) <= lreq.limit
          /\ \A i, j \in DOMAIN lreq'.items :
                i # j => lreq'.items[i].id # lreq'.items[j].id]_vars

\* the client has fetched pages 1 .. totalPages (page 1 alone when there
\* are none)
SweepDone == seen.n >= 1 /\ seen.n >= seen.total /\ lreq.pc # "page"

\* how often post id was returned over the pages fetched
TimesSeen(id) == Cardinality({i \in DOMAIN seen.ids : seen.ids[i] = id})

\* the posts matching the filter of the pages fetched
SweepMatches == Matching(posts, seen.q.author, seen.q.site)

C28_SchemaBoundsLimitAndPage ==
    /\ lreq.pc \in {"page", "done"} =>
          /\ lreq.limit >= 1
          /\ lreq.page >= 1
          /\ (lreq.page - 1) * lreq.limit >= 0
    /\ lreq.pc = "done" => lreq.totalPages # NotFinite /\ lreq.totalPages >= 0

\* signup request s answers in this step
SignupFinishes(s) == sreq[s].pc \in SignupInFlight /\ sreq'[s].pc = "idle"

\* C29: at most one user has a given username; a signup whose username is
\* taken when its insert runs (also by a signup racing with it) answers 409
\* and creates no user and no session; a signup answers 201 only after it
\* has created its user and its session, so of two signups racing for one
\* username at most one answers 201, and when the store does not fail
\* exactly one does and the other answers 409.
C29_UsernameUnique ==
    /\ [](\A a, b \in users : a.username = b.username => a = b)
    /\ [][\A s \in Reqs : SignupFinishes(s) =>
             /\ resp'.status = 409 =>
                   /\ users' = users /\ sessions' = sessions
                   /\ \E u \in users : /\ u.username = sreq[s].username
                                       /\ u.id # sreq[s].userId
             /\ resp'.status = 201 =>
                   /\ UserRow(sreq[s].userId, sreq[s].username) \in users'
                   /\ \E t \in sessions' \ sessions : t.userId = sreq[s].userId
             /\ resp'.status \in {201, 409, 500}]_vars
    /\ [][\A s \in Reqs :
             (sreq[s].pc = "insert" /\ sreq'[s].pc # "insert" /\ resp'.status # 500) =>
                 IF \E u \in users : u.username = sreq[s].username
                 THEN resp'.status = 409 /\ sreq'[s].pc = "idle"
                 ELSE /\ sreq'[s].pc = "session"
                      /\ UserRow(sreq[s].userId, sreq[s].username) \in users']_vars

\* two signups raced for the free username cat: one has created the user
\* and is about to be given its session, the other is at its insert
C29_Witness ==
    \E s1, s2 \in Reqs :
        /\ sreq[s1].pc = "session"
        /\ sreq[s2].pc = "insert"
        /\ sreq[s1].username = "cat"
        /\ sreq[s2].username = "cat"

\* C30: a signup that answers 409 or 500 leaves no new user row: the user
\* it generated an id for is not in the store after the answer.
C30_FailedSignupLeavesNoUser ==
    [][\A s \in Reqs : (SignupFinishes(s) /\ resp'.status \in {409, 500}) =>
          ~ \E u \in users' : u.id = sreq[s].userId]_vars

====
